---- MODULE Spec2Model ----
(***************************************************************************)
(* A model of src/blockchain.py: the Blockchain class (chain, pending      *)
(* transactions, peer set, proof of work, chain validation, consensus) and *)
(* the Flask handlers that drive it.                                       *)
(*                                                                         *)
(* Python values that the code compares or tests for truth are kept with   *)
(* their type: previous_hash is None, an int or a str (a hex digest).      *)
(* hashlib.sha256 is scaled down to a digest space of HashSpace values; it *)
(* is computed over the same byte strings the code feeds it, so that       *)
(* f'{last_proof}{proof}' keeps its concatenation ambiguities and distinct *)
(* blocks may collide.                                                     *)
(***************************************************************************)
EXTENDS Integers, Sequences, FiniteSets, TLC

VARIABLES
    chain,                  \* Blockchain.chain
    current_transactions,   \* Blockchain.current_transactions
    shared,                 \* the last block's 'transactions' is the list object that
                            \* self.current_transactions is bound to
    nodes,                  \* Blockchain.nodes
    peers,                  \* environment: what GET http://{node}/chain answers
    answer,                 \* history: the answer of /nodes/resolve, while nothing ran since
    promised,               \* history: index returned for each pending transaction
    submitted,              \* history: every transaction queued, in order
    minted,                 \* history: transaction lists of the blocks new_block made
    arg,                    \* input of the function under test
    out                     \* its result

vars == <<chain, current_transactions, shared, nodes, peers, answer, promised,
          submitted, minted, arg, out>>

ledger == <<chain, current_transactions, nodes>>

-----------------------------------------------------------------------------
(* Bounds *)

MaxChain == 3       \* mine is not called once the local chain has this many blocks
MaxPool == 1        \* /transactions/new is not called once the pool has this many entries;
                    \* on the ledger alone, one more transaction than this is queued in all
MaxProof == 60      \* proof_of_work is only started when a proof exists below this

-----------------------------------------------------------------------------
(* Python values *)

PyNone == [t |-> "None", v |-> 0]
PyInt(n) == [t |-> "int", v |-> n]
PyStr(d) == [t |-> "str", v |-> d]        \* a hexdigest, named by its digest value

\* Python truth value of None, an int, or a (non-empty) hexdigest
Truthy(x) ==
    CASE x.t = "None" -> FALSE
      [] x.t = "int" -> x.v # 0
      [] OTHER -> TRUE

Last(s) == s[Len(s)]

-----------------------------------------------------------------------------
(* hashlib.sha256, scaled down *)

HashSpace == 64
HashMult == 13
HashSeed == 1

RECURSIVE sha256_from(_, _)
sha256_from(h, bytes) ==
    IF bytes = <<>> THEN h
    ELSE sha256_from((h * HashMult + Head(bytes) + 1) % HashSpace, Tail(bytes))

sha256(bytes) == sha256_from(HashSeed, bytes)

\* str(n) of a non-negative int, as its decimal digits
RECURSIVE str(_)
str(n) == IF n < 10 THEN <<n>> ELSE str(n \div 10) \o <<n % 10>>

NodeIdentifier == "n0de"

StrTable == <<"0", "A", "B", NodeIdentifier>>
encode(s) == CHOOSE i \in 1..Len(StrTable) : StrTable[i] = s

TypeCode(x) == CASE x.t = "None" -> 0 [] x.t = "int" -> 1 [] OTHER -> 2

RECURSIVE dumps_transactions(_)
dumps_transactions(txs) ==
    IF txs = <<>> THEN <<>>
    ELSE <<Head(txs).amount, encode(Head(txs).recipient), encode(Head(txs).sender)>>
         \o dumps_transactions(Tail(txs))

\* json.dumps(block, sort_keys=True): index, previous_hash, proof, timestamp,
\* transactions (each: amount, recipient, sender)
json_dumps(block) ==
    <<block.index, TypeCode(block.previous_hash), block.previous_hash.v,
      block.proof, block.timestamp, Len(block.transactions)>>
    \o dumps_transactions(block.transactions)

hash(block) == sha256(json_dumps(block))

-----------------------------------------------------------------------------
(* Proof of work *)

valid_proof(last_proof, proof) ==
    LET guess == str(last_proof) \o str(proof)
        guess_hash == sha256(guess)
    IN  guess_hash < HashSpace \div 16

RECURSIVE pow_loop(_, _)
pow_loop(last_proof, proof) ==
    IF valid_proof(last_proof, proof) THEN proof
    ELSE pow_loop(last_proof, proof + 1)

\* proof_of_work with its search started at 1
proof_of_work_from_one(last_proof) == pow_loop(last_proof, 1)

proof_of_work(last_proof) == pow_loop(last_proof, 0)

\* the search loop of proof_of_work ends
Terminates(last_proof) == \E p \in 0..MaxProof : valid_proof(last_proof, p)

-----------------------------------------------------------------------------
(* Ledger *)

\* time(): the wall clock, read when a block is made; a block is not stamped
\* earlier than the block it follows
Timestamps == {0, 1}

\* new_block without self.current_transactions = []
new_block_keeps_pool(ch, pool, proof, previous_hash, now) ==
    LET block == [index |-> Len(ch) + 1,
                  timestamp |-> now,
                  transactions |-> pool,
                  proof |-> proof,
                  previous_hash |-> IF Truthy(previous_hash) THEN previous_hash
                                    ELSE PyStr(hash(Last(ch)))]
    IN  [chain |-> Append(ch, block), current_transactions |-> pool, block |-> block,
         shared |-> TRUE]

\* new_block emptying the list in place where the code binds a new list
new_block_clears_pool(ch, pool, proof, previous_hash, now) ==
    LET block == [index |-> Len(ch) + 1,
                  timestamp |-> now,
                  transactions |-> <<>>,
                  proof |-> proof,
                  previous_hash |-> IF Truthy(previous_hash) THEN previous_hash
                                    ELSE PyStr(hash(Last(ch)))]
    IN  [chain |-> Append(ch, block), current_transactions |-> <<>>, block |-> block,
         shared |-> TRUE]

\* the block holds the list self.current_transactions was bound to (line 41);
\* self.current_transactions is then bound to a new list (line 46)
new_block(ch, pool, proof, previous_hash, now) ==
    LET block == [index |-> Len(ch) + 1,
                  timestamp |-> now,
                  transactions |-> pool,
                  proof |-> proof,
                  previous_hash |-> IF Truthy(previous_hash) THEN previous_hash
                                    ELSE PyStr(hash(Last(ch)))]
    IN  [chain |-> Append(ch, block), current_transactions |-> <<>>, block |-> block,
         shared |-> FALSE]

\* the append changes the list object, in every place that holds it: sh says
\* that the last block of ch does
new_transaction(ch, pool, sh, sender, recipient, amount) ==
    LET transaction == [sender |-> sender, recipient |-> recipient, amount |-> amount]
        seen == IF sh THEN [ch EXCEPT ![Len(ch)].transactions = Append(@, transaction)]
                ELSE ch
    IN  [chain |-> seen,
         current_transactions |-> Append(pool, transaction),
         ret |-> Last(seen).index + 1]

\* mine() without its call of new_transaction
mine_without_reward(ch, pool, sh, now) ==
    LET last_block == Last(ch)
        last_proof == last_block.proof
        proof == proof_of_work(last_proof)
        previous_hash == PyStr(hash(last_block))
    IN  new_block(ch, pool, proof, previous_hash, now)

\* mine(), on the ledger alone: the block it appends
mine(ch, pool, sh, now) ==
    LET last_block == Last(ch)
        last_proof == last_block.proof
        proof == proof_of_work(last_proof)
        t == new_transaction(ch, pool, sh, "0", NodeIdentifier, 1)
        \* last_block is the block object, read again after new_transaction
        previous_hash == PyStr(hash(Last(t.chain)))
    IN  new_block(t.chain, t.current_transactions, proof, previous_hash, now)

\* Blockchain.__init__
Genesis(now) == new_block(<<>>, <<>>, 1, PyInt(100), now)

-----------------------------------------------------------------------------
(* Chain validation *)

\* the loop of valid_chain without its check of the proof
RECURSIVE valid_chain_loop_hash_only(_, _, _)
valid_chain_loop_hash_only(ch, last_block, current_index) ==
    IF ~(current_index < Len(ch)) THEN "True"
    ELSE LET block == ch[current_index + 1]
         IN  IF block.previous_hash # PyStr(hash(last_block)) THEN "False"
             ELSE valid_chain_loop_hash_only(ch, block, current_index + 1)

\* current_index counts from 0 as in the code; ch[current_index + 1] is chain[current_index]
RECURSIVE valid_chain_loop(_, _, _)
valid_chain_loop(ch, last_block, current_index) ==
    IF ~(current_index < Len(ch)) THEN "True"
    ELSE LET block == ch[current_index + 1]
         IN  IF block.previous_hash # PyStr(hash(last_block)) THEN "False"
             ELSE IF ~valid_proof(last_block.proof, block.proof) THEN "False"
             ELSE valid_chain_loop(ch, block, current_index + 1)

\* "True", "False", or the exception chain[0] raises on an empty list
valid_chain(ch) ==
    IF Len(ch) = 0 THEN "IndexError"
    ELSE valid_chain_loop(ch, ch[1], 1)

-----------------------------------------------------------------------------
(* Consensus *)

\* requests.get(f'http://{node}/chain'): it raises, or answers with a status
\* and a body; response.json() raises on a body that is not the expected JSON
ConnectionFailed ==
    [error |-> "ConnectionError", status_code |-> 0, json |-> FALSE, length |-> 0, chain |-> <<>>]
NotFound ==
    [error |-> "", status_code |-> 404, json |-> FALSE, length |-> 0, chain |-> <<>>]
Malformed ==
    [error |-> "", status_code |-> 200, json |-> FALSE, length |-> 0, chain |-> <<>>]
Ok(ch, length) ==
    [error |-> "", status_code |-> 200, json |-> TRUE, length |-> length, chain |-> ch]

\* GET /chain, as a peer running this code answers it
full_chain(ch) == Ok(ch, Len(ch))

\* new_chain is None (some = FALSE) or a list
NoChain == [some |-> FALSE, chain |-> <<>>]
SomeChain(ch) == [some |-> TRUE, chain |-> ch]

Raise(e) == [exc |-> e, new_chain |-> NoChain]

\* the loop of resolve_conflicts with length >= max_length for length > max_length
RECURSIVE resolve_loop_equal_replaces(_, _, _, _)
resolve_loop_equal_replaces(order, fetch, max_length, new_chain) ==
    IF order = <<>> THEN [exc |-> "", new_chain |-> new_chain]
    ELSE LET response == fetch[Head(order)]
             rest == Tail(order)
         IN  IF response.error # "" THEN Raise(response.error)
             ELSE IF response.status_code # 200
                  THEN resolve_loop_equal_replaces(rest, fetch, max_length, new_chain)
             ELSE IF ~response.json THEN Raise("JSONDecodeError")
             ELSE IF ~(response.length >= max_length)
                  THEN resolve_loop_equal_replaces(rest, fetch, max_length, new_chain)
             ELSE LET valid == valid_chain(response.chain)
                  IN  IF valid = "IndexError" THEN Raise("IndexError")
                      ELSE IF valid = "True"
                           THEN resolve_loop_equal_replaces(rest, fetch, response.length,
                                                            SomeChain(response.chain))
                      ELSE resolve_loop_equal_replaces(rest, fetch, max_length, new_chain)

\* the for loop of resolve_conflicts over the peers, in iteration order
RECURSIVE resolve_loop(_, _, _, _)
resolve_loop(order, fetch, max_length, new_chain) ==
    IF order = <<>> THEN [exc |-> "", new_chain |-> new_chain]
    ELSE LET response == fetch[Head(order)]
             rest == Tail(order)
         IN  IF response.error # "" THEN Raise(response.error)
             ELSE IF response.status_code # 200
                  THEN resolve_loop(rest, fetch, max_length, new_chain)
             ELSE IF ~response.json THEN Raise("JSONDecodeError")
             ELSE IF ~(response.length > max_length)
                  THEN resolve_loop(rest, fetch, max_length, new_chain)
             ELSE LET valid == valid_chain(response.chain)
                  IN  IF valid = "IndexError" THEN Raise("IndexError")
                      ELSE IF valid = "True"
                           THEN resolve_loop(rest, fetch, response.length,
                                             SomeChain(response.chain))
                      ELSE resolve_loop(rest, fetch, max_length, new_chain)

\* exc: the exception raised, "" if none; replaced: the value returned
\* resolve_conflicts returning False after it replaced the chain
resolve_conflicts_reports_false(ch, order, fetch) ==
    LET r == resolve_loop(order, fetch, Len(ch), NoChain)
    IN  IF r.exc # "" THEN [exc |-> r.exc, replaced |-> FALSE, chain |-> ch]
        ELSE IF r.new_chain.some /\ r.new_chain.chain # <<>>
             THEN [exc |-> "", replaced |-> FALSE, chain |-> r.new_chain.chain]
        ELSE [exc |-> "", replaced |-> FALSE, chain |-> ch]

resolve_conflicts(ch, order, fetch) ==
    LET r == resolve_loop(order, fetch, Len(ch), NoChain)
    IN  IF r.exc # "" THEN [exc |-> r.exc, replaced |-> FALSE, chain |-> ch]
        ELSE IF r.new_chain.some /\ r.new_chain.chain # <<>>
             THEN [exc |-> "", replaced |-> TRUE, chain |-> r.new_chain.chain]
        ELSE [exc |-> "", replaced |-> FALSE, chain |-> ch]

\* the orders in which a for loop may visit a set
Orders(S) ==
    {o \in [1..Cardinality(S) -> S] : \A i, j \in 1..Cardinality(S) : o[i] = o[j] => i = j}

-----------------------------------------------------------------------------
(* Peers: the chains and answers the environment serves *)

Netlocs == {"p1:5000", "p2:5000"}

\* the longest chain a peer serves
MaxPeerLen == MaxChain

\* a chain grown by a node running this code: __init__, then mine n-1 times
RECURSIVE HonestChain(_, _)
HonestChain(n, now) ==
    IF n = 1 THEN Genesis(now).chain
    ELSE mine(HonestChain(n - 1, now), <<>>, FALSE, now).chain

LongestServed == HonestChain(MaxPeerLen, 0)
ForkServed == HonestChain(MaxPeerLen, 1)

\* the last block altered without re-deriving anything
BrokenLink(ch) ==
    [ch EXCEPT ![Len(ch)].previous_hash = PyStr((@.v + 1) % HashSpace)]
BadProof(ch) ==
    [ch EXCEPT ![Len(ch)].proof =
        CHOOSE p \in 0..MaxProof : ~valid_proof(ch[Len(ch) - 1].proof, p)]
BadIndex(ch) ==
    [ch EXCEPT ![Len(ch)].index = @ + 4]

PeerChains ==
    {HonestChain(n, 0) : n \in 2..MaxPeerLen}
    \cup {ForkServed}
    \cup {BrokenLink(LongestServed), BadProof(LongestServed), BadIndex(LongestServed)}

\* failures, chains served with their true length, and chains served with a
\* length that is not theirs
Responses ==
    {ConnectionFailed, NotFound, Malformed}
    \cup {full_chain(ch) : ch \in PeerChains}
    \cup {Ok(<<>>, MaxPeerLen + 1), Ok(HonestChain(1, 0), MaxPeerLen + 1), Ok(LongestServed, 0)}

\* what each peer may answer: the first anything above, the second is down,
\* answers 404, or serves one of the two longest honest chains
FewResponses ==
    {ConnectionFailed, NotFound, full_chain(LongestServed), full_chain(ForkServed)}

Answers(n) == IF n = "p1:5000" THEN Responses ELSE FewResponses

-----------------------------------------------------------------------------
(* Flask handlers *)

\* the answer of /nodes/resolve: its status and what resolve_conflicts returned,
\* with the order in which the loop over self.nodes visited the peers when a
\* chain was adopted
NoAnswer == [status |-> 0, replaced |-> FALSE, examined |-> <<>>]
Answer(status, replaced, order) ==
    [status |-> status, replaced |-> replaced, examined |-> order]

\* GET /mine
Mine(now) ==
    /\ Len(chain) < MaxChain
    /\ now >= Last(chain).timestamp
    /\ Terminates(Last(chain).proof)
    /\ LET r == mine(chain, current_transactions, shared, now)
       IN  /\ chain' = r.chain
           /\ current_transactions' = r.current_transactions
           /\ shared' = r.shared
    /\ answer' = NoAnswer
    /\ UNCHANGED <<nodes, peers>>

\* POST /transactions/new; values is the JSON object of the request
TransactionsNew(values) ==
    /\ Len(current_transactions) < MaxPool
    /\ LET required == {"sender", "recipient", "amount"}
       IN  IF ~(\A k \in required : k \in DOMAIN values)
           THEN UNCHANGED <<chain, current_transactions>>
           ELSE LET t == new_transaction(chain, current_transactions, shared,
                                         values.sender, values.recipient, values.amount)
                IN  /\ chain' = t.chain
                    /\ current_transactions' = t.current_transactions
    /\ answer' = NoAnswer
    /\ UNCHANGED <<shared, nodes, peers>>

\* urlparse(address).netloc
netloc(address) ==
    CASE address = "http://p1:5000" -> "p1:5000"
      [] address = "http://p1:5000/chain" -> "p1:5000"
      [] address = "http://p2:5000" -> "p2:5000"

register_node(ns, address) == ns \cup {netloc(address)}

RECURSIVE register_each(_, _)
register_each(ns, addresses) ==
    IF addresses = <<>> THEN ns
    ELSE register_each(register_node(ns, Head(addresses)), Tail(addresses))

\* POST /nodes/register; values is the JSON object of the request
RegisterNodes(values) ==
    /\ IF "nodes" \notin DOMAIN values
       THEN UNCHANGED nodes
       ELSE nodes' = register_each(nodes, values.nodes)
    /\ answer' = NoAnswer
    /\ UNCHANGED <<chain, current_transactions, shared, peers>>

\* GET /nodes/resolve; an exception leaving the handler is answered with 500
Consensus ==
    /\ \E order \in Orders(nodes) :
           LET r == resolve_conflicts(chain, order, peers)
           IN  /\ chain' = r.chain
               \* the blocks of an adopted chain are new objects
               /\ shared' = (shared /\ ~r.replaced)
               /\ answer' = Answer(IF r.exc # "" THEN 500 ELSE 200, r.replaced,
                                IF r.replaced THEN order ELSE <<>>)
    /\ UNCHANGED <<current_transactions, nodes, peers>>

\* a registered peer starts answering differently
PeerChange(n, response) ==
    /\ n \in nodes
    /\ peers' = [peers EXCEPT ![n] = response]
    /\ answer' = NoAnswer
    /\ UNCHANGED <<chain, current_transactions, shared, nodes>>

-----------------------------------------------------------------------------
(* The node: handlers run one at a time, each to completion *)

TxBodies ==
    {[sender |-> "A", recipient |-> "B", amount |-> 5],
     [sender |-> "A", recipient |-> "B"]}

RegisterBodies ==
    {[nodes |-> <<"http://p1:5000">>],
     [nodes |-> <<"http://p1:5000/chain", "http://p2:5000">>],
     [nodes |-> <<>>],
     [other |-> <<>>]}

Init ==
    /\ \E now \in Timestamps :
           LET g == Genesis(now)
           IN  /\ chain = g.chain
               /\ current_transactions = g.current_transactions
               /\ shared = g.shared
    /\ nodes = {}
    /\ peers = [n \in Netlocs |-> ConnectionFailed]
    /\ answer = NoAnswer
    /\ promised = <<>>
    /\ submitted = <<>>
    /\ minted = <<>>
    /\ out = ""

InitNode ==
    /\ Init
    /\ arg = <<>>

Next ==
    \/ /\ \E values \in TxBodies : TransactionsNew(values)
       \* the index in the 201 message is what new_transaction returned
       /\ promised' = IF current_transactions' = current_transactions THEN promised
                      ELSE Append(promised, new_transaction(chain, current_transactions,
                                                            shared, "", "", 0).ret)
       /\ UNCHANGED <<submitted, minted, arg, out>>
    \/ /\ \E now \in Timestamps : Mine(now)
       /\ promised' = <<>>
       /\ UNCHANGED <<submitted, minted, arg, out>>
    \/ /\ \E values \in RegisterBodies : RegisterNodes(values)
       /\ UNCHANGED <<promised, submitted, minted, arg, out>>
    \/ /\ Consensus
       /\ UNCHANGED <<promised, submitted, minted, arg, out>>
    \/ /\ \E n \in Netlocs : \E response \in Answers(n) : PeerChange(n, response)
       /\ UNCHANGED <<promised, submitted, minted, arg, out>>

Spec == InitNode /\ [][Next]_vars

-----------------------------------------------------------------------------
(* Chain invariant and conflict resolution *)

\* the links of a chain, stated block by block
Linked(ch) ==
    \A i \in 2..Len(ch) :
        /\ ch[i].previous_hash = PyStr(hash(ch[i - 1]))
        /\ valid_proof(ch[i - 1].proof, ch[i].proof)

\* the step was a run of /nodes/resolve that answered
Resolved == answer'.status # 0

\* C1: in every state reached by submissions, mine operations and conflict
\* resolutions, every block after the first carries the digest of its
\* predecessor and a proof valid against its predecessor's proof.
C1_ChainLinked == Linked(chain)

\* a chain adopted from a peer, with links to check
C1_Witness == answer.replaced /\ Len(chain) = MaxChain

\* C2: a chain installed by resolve passes the validator and has strictly more
\* blocks than the local chain had; the number of blocks never decreases.
C2_ResolveOnlyGrows ==
    [][/\ answer'.replaced =>
            valid_chain(chain') = "True" /\ Len(chain') > Len(chain)
       /\ Len(chain') >= Len(chain)]_vars

\* a peer's answer could be fetched: 200 and a JSON body with length and chain
Fetched(response) ==
    response.error = "" /\ response.status_code = 200 /\ response.json

\* the chains offered by registered peers that are linked and strictly longer
\* than ch
Qualifying(ch) ==
    {peers[n].chain : n \in {m \in nodes : /\ Fetched(peers[m])
                                          /\ Len(peers[m].chain) > Len(ch)
                                          /\ Linked(peers[m].chain)}}

\* C3: when resolve has examined all peers and some peer offered a valid chain
\* strictly longer than the local one, it reports replaced=true and the local
\* chain becomes a longest of those chains.
C3_AdoptsLongest ==
    [][(Resolved /\ answer'.status = 200 /\ Qualifying(chain) # {}) =>
          /\ answer'.replaced
          /\ chain' \in Qualifying(chain)
          /\ \A ch \in Qualifying(chain) : Len(chain') >= Len(ch)]_vars

\* C4: a peer whose chain cannot be fetched is skipped: resolve still answers
\* replaced or not replaced, and still adopts a qualifying chain of another peer.
C4_FetchFailureSkipped ==
    [][(/\ Resolved
        /\ \E n \in nodes : ~Fetched(peers[n])
        /\ \A n \in nodes : Fetched(peers[n]) =>
               /\ peers[n].chain # <<>>
               /\ peers[n].length = Len(peers[n].chain)) =>
          /\ answer'.status = 200
          /\ Qualifying(chain) # {} => answer'.replaced]_vars

\* C5: a peer offering a chain that fails validation (empty, broken link,
\* invalid proof, with any reported length) offers nothing: its chain is never
\* installed, no error reaches the caller, the other peers are still examined.
C5_InvalidChainIgnored ==
    [][(Resolved /\ \A n \in nodes : Fetched(peers[n])) =>
          /\ answer'.status = 200
          /\ answer'.replaced => chain' # <<>> /\ Linked(chain')]_vars

\* C6: a second resolve right after a first, with the peers answering the
\* same, reports replaced=false and leaves the chain as the first left it.
C6_Idempotent ==
    answer.status = 200 =>
        \A order \in Orders(nodes) :
            LET second == resolve_conflicts(chain, order, peers)
            IN  ~second.replaced /\ second.chain = chain

\* C8: new_transaction returns the chain length + 1, and the block that later
\* embeds the transaction has that index, whatever ran in between.
C8_PromisedIndex ==
    [][/\ Len(promised') > Len(promised) => Last(promised') = Len(chain) + 1
       /\ (\E now \in Timestamps : Mine(now)) =>
              \A i \in 1..Len(promised) : promised[i] = Last(chain').index]_vars

-----------------------------------------------------------------------------
(* The ledger alone: new_transaction and new_block called in any order *)

NewTransaction(sender, recipient, amount) ==
    /\ Len(submitted) <= MaxPool
    /\ LET t == new_transaction(chain, current_transactions, shared,
                                 sender, recipient, amount)
       IN  /\ chain' = t.chain
           /\ current_transactions' = t.current_transactions
           /\ promised' = Append(promised, t.ret)
           /\ submitted' = Append(submitted, Last(t.current_transactions))
    /\ UNCHANGED <<shared, nodes, peers, answer, minted, arg, out>>

NewBlock(proof, previous_hash, now) ==
    /\ Len(chain) < MaxChain
    /\ now >= Last(chain).timestamp
    /\ LET r == new_block(chain, current_transactions, proof, previous_hash, now)
       IN  /\ chain' = r.chain
           /\ current_transactions' = r.current_transactions
           /\ shared' = r.shared
           /\ minted' = Append(minted, r.block.transactions)
    /\ promised' = <<>>
    /\ arg' = [proof |-> proof, previous_hash |-> previous_hash]
    /\ UNCHANGED <<nodes, peers, answer, submitted, out>>

LedgerTransactions == {<<"A", "B", 5>>, <<"B", "A", 3>>}

\* previous_hash left out, or given: a falsy value, a digest
PreviousHashes == {PyNone, PyInt(0), PyStr(0)}

NextLedger ==
    \/ \E t \in LedgerTransactions : NewTransaction(t[1], t[2], t[3])
    \/ \E proof \in {0, proof_of_work(Last(chain).proof)} :
           \E previous_hash \in PreviousHashes, now \in Timestamps :
               NewBlock(proof, previous_hash, now)

SpecLedger == InitNode /\ [][NextLedger]_vars

RECURSIVE Flatten(_)
Flatten(lists) == IF lists = <<>> THEN <<>> ELSE Head(lists) \o Flatten(Tail(lists))

\* C7: the blocks made by new_block hold, in order and once each, the
\* transactions queued before them, a block holding exactly those queued since
\* the previous new_block; the rest is pending, and nothing is pending right
\* after new_block.
C7_EmbedsQueuedInOrder ==
    /\ Flatten(minted) \o current_transactions = submitted
    /\ Len(current_transactions) = Len(promised)
    /\ \A i \in 1..Len(minted) : chain[Len(chain) - Len(minted) + i].transactions = minted[i]

\* new_block right after new_block made a block without transactions
C7_Witness ==
    /\ Len(minted) = 2
    /\ Len(minted[1]) = 2
    /\ minted[1][1] # minted[1][2]
    /\ minted[2] = <<>>
    /\ current_transactions = <<>>

\* nothing was queued and no block made since construction
Untouched == submitted = <<>> /\ minted = <<>>

\* C9: right after construction the ledger holds one block, the genesis block
\* with index 1, proof 100, no previous hash and no transactions; the pending
\* pool and the peer set are empty.
C9_Genesis ==
    Untouched =>
        /\ Len(chain) = 1
        /\ chain[1].index = 1
        /\ chain[1].proof = 100
        /\ chain[1].previous_hash = PyNone
        /\ chain[1].transactions = <<>>
        /\ current_transactions = <<>>
        /\ nodes = {}

-----------------------------------------------------------------------------
(* valid_chain alone, on chains put together from served and altered blocks *)

BlocksOf(ch) == {ch[i] : i \in 1..Len(ch)}

BlockPool ==
    BlocksOf(LongestServed) \cup BlocksOf(BrokenLink(LongestServed))
    \cup BlocksOf(BadProof(LongestServed)) \cup BlocksOf(BadIndex(LongestServed))

CandidateChains == UNION {[1..k -> BlockPool] : k \in 0..MaxChain}

InitValid ==
    /\ Init
    /\ arg \in CandidateChains

CheckChain ==
    /\ out = ""
    /\ out' = valid_chain(arg)
    /\ UNCHANGED <<chain, current_transactions, shared, nodes, peers, answer, promised,
                   submitted, minted, arg>>

SpecValid == InitValid /\ [][CheckChain]_vars

\* C10: valid_chain returns true exactly when every block from the second on
\* carries the digest of its predecessor and a proof valid against its
\* predecessor's proof, so also for no block and for one block, and false
\* otherwise.
C10_ValidIffLinked ==
    out # "" => out = (IF Linked(arg) THEN "True" ELSE "False")

-----------------------------------------------------------------------------
(* valid_chain on a chain grown by this code, after one field of one block is
   changed and nothing re-derived *)

GrownChains == {HonestChain(n, now) : n \in 1..MaxChain, now \in Timestamps}

TamperedProofs == 0..12
TamperedHashes == {PyNone, PyInt(100)} \cup {PyStr(d) : d \in 0..(HashSpace - 1)}
TamperedTransactions ==
    {<<>>,
     <<[sender |-> "A", recipient |-> "B", amount |-> 5]>>,
     <<[sender |-> "0", recipient |-> NodeIdentifier, amount |-> 1]>>,
     <<[sender |-> "0", recipient |-> NodeIdentifier, amount |-> 1],
       [sender |-> "A", recipient |-> "B", amount |-> 5]>>}

InitTamper ==
    /\ Init
    /\ arg \in {[original |-> ch, chain |-> ch, pos |-> 0, field |-> ""] : ch \in GrownChains}

Tampered(field, altered) ==
    /\ arg.pos = 0
    /\ altered # arg.original
    /\ \E pos \in 1..Len(altered) :
           arg' = [original |-> arg.original, chain |-> altered, pos |-> pos, field |-> field]
    /\ \A i \in 1..Len(altered) : i # arg'.pos => altered[i] = arg.original[i]
    /\ out' = valid_chain(altered)
    /\ UNCHANGED <<chain, current_transactions, shared, nodes, peers, answer, promised,
                   submitted, minted>>

TamperProof ==
    \E pos \in 1..Len(arg.original), proof \in TamperedProofs :
        Tampered("proof", [arg.original EXCEPT ![pos].proof = proof])

TamperPreviousHash ==
    \E pos \in 1..Len(arg.original), previous_hash \in TamperedHashes :
        Tampered("previous_hash", [arg.original EXCEPT ![pos].previous_hash = previous_hash])

TamperTransactions ==
    \E pos \in 1..Len(arg.original), transactions \in TamperedTransactions :
        Tampered("transactions", [arg.original EXCEPT ![pos].transactions = transactions])

NextTamper == TamperProof \/ TamperPreviousHash \/ TamperTransactions

SpecTamper == InitTamper /\ [][NextTamper]_vars

\* the digest tells the altered block from the original one
DigestDiffers == hash(arg.chain[arg.pos]) # hash(arg.original[arg.pos])

\* C11 as stated: a chain grown by the code is valid, and changing the proof,
\* the previous_hash or the transactions of any one block, the first and the
\* last included, makes valid_chain return false when the digest tells the
\* blocks apart.
C11_AnyTamperDetected ==
    /\ valid_chain(arg.original) = "True"
    /\ (arg.pos # 0 /\ DigestDiffers) => out = "False"

-----------------------------------------------------------------------------
(* proof_of_work on its own *)

\* the last proofs for which the search ends
LastProofs == {last_proof \in 0..MaxProof : Terminates(last_proof)}

InitSolve ==
    /\ Init
    /\ arg \in {[last_proof |-> last_proof, solved |-> FALSE] : last_proof \in LastProofs}

ProofOfWork ==
    /\ ~arg.solved
    /\ out' = proof_of_work(arg.last_proof)
    /\ arg' = [arg EXCEPT !.solved = TRUE]
    /\ UNCHANGED <<chain, current_transactions, shared, nodes, peers, answer, promised,
                   submitted, minted>>

SpecSolve == InitSolve /\ [][ProofOfWork]_vars

\* C12: for a last proof that has a valid proof, proof_of_work returns a
\* proof that valid_proof accepts, valid_proof rejects every smaller
\* non-negative number, and the chain, the pool and the peer set are unchanged.
C12_SolveSmallest ==
    [][arg'.solved =>
          /\ out' >= 0
          /\ valid_proof(arg.last_proof, out')
          /\ \A q \in 0..(out' - 1) : ~valid_proof(arg.last_proof, q)
          /\ ledger' = ledger]_vars

\* a search that had to pass over rejected numbers, and one that did not
C12_Witness == arg.solved /\ out >= 10

-----------------------------------------------------------------------------
(* Blocks of the chain *)

\* the step bound self.chain to the chain of a peer, whose blocks are new objects
Adopted == answer'.status = 200 /\ answer'.replaced

\* C15: while the chain is not replaced by a peer's, a block that is at a
\* position of the chain stays there with every field as it was; a
\* transaction queued later does not reach the transactions of a block
\* already appended.
C15_BlocksImmutable ==
    [][~Adopted =>
          /\ Len(chain') >= Len(chain)
          /\ \A i \in 1..Len(chain) : chain'[i] = chain[i]]_vars

\* a transaction queued after a block was mined on this node
C15_Witness ==
    /\ nodes = {}
    /\ Len(chain) = 2
    /\ Len(chain[2].transactions) = 1
    /\ current_transactions # <<>>

\* C16: in every reachable state the block at position k of the chain, counted
\* from 1, has index k, a chain adopted from a peer included.
C16_IndexIsPosition == \A k \in 1..Len(chain) : chain[k].index = k

-----------------------------------------------------------------------------
(* Peers with chains of the same length *)

\* the positions, in the order the peers were examined, of the peers whose
\* answer was fetched with a valid chain and a length above that of ch
Candidates(ch, order) ==
    {i \in 1..Len(order) : /\ Fetched(peers[order[i]])
                           /\ peers[order[i]].length > Len(ch)
                           /\ valid_chain(peers[order[i]].chain) = "True"}

\* those of them that report the greatest length
Longest(ch, order) ==
    {i \in Candidates(ch, order) :
        \A j \in Candidates(ch, order) :
            peers[order[i]].length >= peers[order[j]].length}

\* C17: when resolve adopts a chain, it is the chain of the peer examined
\* first among those reporting the greatest length with a valid chain; a peer
\* examined later that reports the same length does not displace it.
C17_FirstExaminedWins ==
    [][Adopted =>
          /\ Longest(chain, answer'.examined) # {}
          /\ \A i \in Longest(chain, answer'.examined) :
                 (\A j \in Longest(chain, answer'.examined) : i <= j) =>
                     chain' = peers[answer'.examined[i]].chain]_vars

\* two peers served different valid chains of the same length, and the chain
\* of the one examined first was adopted
C17_Witness ==
    /\ answer.status = 200
    /\ answer.replaced
    /\ Len(answer.examined) = 2
    /\ Fetched(peers[answer.examined[1]])
    /\ Fetched(peers[answer.examined[2]])
    /\ peers[answer.examined[1]].length = peers[answer.examined[2]].length
    /\ peers[answer.examined[1]].chain # peers[answer.examined[2]].chain
    /\ valid_chain(peers[answer.examined[2]].chain) = "True"
    /\ chain = peers[answer.examined[1]].chain

-----------------------------------------------------------------------------
(* What resolve leaves alone *)

\* C18: when resolve reports that nothing was replaced, or ends with an
\* error, the chain is as it was; whatever the outcome, the pool of pending
\* transactions and the set of peers are as they were.
C18_ResolveFrame ==
    [][Resolved =>
          /\ ~answer'.replaced => chain' = chain
          /\ current_transactions' = current_transactions
          /\ nodes' = nodes]_vars

\* resolve reported that nothing was replaced, with a transaction pending and
\* a peer serving a chain that is not the local one
C18_Witness ==
    /\ answer.status = 200
    /\ ~answer.replaced
    /\ current_transactions # <<>>
    /\ \E n \in nodes : Fetched(peers[n]) /\ peers[n].chain # chain

-----------------------------------------------------------------------------
(* What mine appends *)

\* the step was a run of /mine: the chain changed and it was not /nodes/resolve
Mined == ~Resolved /\ chain' # chain

\* the transaction mine queues for the node
Reward == [sender |-> "0", recipient |-> NodeIdentifier, amount |-> 1]

\* C19: mine appends exactly one block: its proof is proof_of_work of the
\* proof of the block that was last, its previous_hash the digest of that
\* block, its index the former length plus one, its transactions the pending
\* ones in order followed by the reward; the pool is then empty and the
\* earlier blocks are as they were.
C19_MineAppendsOne ==
    [][Mined =>
          /\ Len(chain') = Len(chain) + 1
          /\ \A i \in 1..Len(chain) : chain'[i] = chain[i]
          /\ Last(chain').proof = proof_of_work(Last(chain).proof)
          /\ valid_proof(Last(chain).proof, Last(chain').proof)
          /\ Last(chain').previous_hash = PyStr(hash(Last(chain)))
          /\ Last(chain').index = Len(chain) + 1
          /\ Last(chain').transactions = Append(current_transactions, Reward)
          /\ current_transactions' = <<>>]_vars

\* a block mined on this node with a transaction that was pending
C19_Witness ==
    /\ nodes = {}
    /\ Len(chain) = 2
    /\ Len(chain[2].transactions) = 2
    /\ chain[2].transactions[2] = Reward
    /\ current_transactions = <<>>

-----------------------------------------------------------------------------
(* What new_block appends *)

\* C20: new_block(proof, previous_hash) appends exactly one block, with index
\* the former length plus one and the proof given; its previous_hash is the
\* one supplied whenever one is supplied, whatever its value, and the digest
\* of the last block only when none is supplied; the blocks there before are
\* as they were.
C20_NewBlockKeepsSupplied ==
    [][Len(chain') > Len(chain) =>
          /\ Len(chain') = Len(chain) + 1
          /\ \A i \in 1..Len(chain) : chain'[i] = chain[i]
          /\ Last(chain').index = Len(chain) + 1
          /\ Last(chain').proof = arg'.proof
          /\ Last(chain').previous_hash =
                 IF arg'.previous_hash = PyNone THEN PyStr(hash(Last(chain)))
                 ELSE arg'.previous_hash]_vars

-----------------------------------------------------------------------------
(* Handlers served by concurrent threads: nothing in the code takes a lock, so
   a thread may be switched between any two statements. A step below is one
   statement that reads or writes self.chain or self.current_transactions,
   together with the statements on local names that follow it. *)

Miners == {"m1", "m2"}      \* two requests of /mine
Threads == Miners \cup {"tx", "rs"}     \* and one of /transactions/new, /nodes/resolve

NoBlock ==
    [index |-> 0, timestamp |-> 0, transactions |-> <<>>, proof |-> 0,
     previous_hash |-> PyNone]

\* the local names of a thread; alias says that block['transactions'] is the
\* list object self.current_transactions is bound to, snapshot is what that
\* list held when the block was built
Idle ==
    [pc |-> "idle", last_block |-> NoBlock, proof |-> 0, previous_hash |-> PyNone,
     block |-> NoBlock, alias |-> FALSE, snapshot |-> <<>>, new_chain |-> NoChain]

\* a node that has registered one peer, which serves a longer chain
InitThreads ==
    /\ \E now \in Timestamps :
           LET g == Genesis(now)
           IN  /\ chain = g.chain
               /\ current_transactions = g.current_transactions
               /\ shared = g.shared
    /\ nodes = {"p1:5000"}
    /\ peers \in {[n \in Netlocs |-> IF n = "p1:5000" THEN full_chain(ch)
                                     ELSE ConnectionFailed] :
                     ch \in {HonestChain(2, 0), LongestServed}}
    /\ answer = NoAnswer
    /\ promised = <<>>
    /\ submitted = <<>>
    /\ minted = <<>>
    /\ out = ""
    /\ arg = [t \in Threads |-> Idle]

\* list.append on the list self.current_transactions is bound to, as seen
\* through the blocks being built that hold the same list
Appended(locals, transaction) ==
    [t \in Threads |->
        IF locals[t].alias
        THEN [locals[t] EXCEPT !.block.transactions = Append(@, transaction)]
        ELSE locals[t]]

\* what no step of these handlers writes
elsewhere == <<nodes, peers, answer, promised, minted, out>>

\* mine, lines 233-235
MineRead(t) ==
    /\ arg[t].pc = "idle"
    /\ Terminates(Last(chain).proof)
    /\ arg' = [arg EXCEPT ![t].pc = "read",
                          ![t].last_block = Last(chain),
                          ![t].proof = proof_of_work(Last(chain).proof)]
    /\ UNCHANGED <<chain, current_transactions, shared, submitted>>
    /\ UNCHANGED elsewhere

\* mine, lines 236-242
MineReward(t) ==
    /\ arg[t].pc = "read"
    /\ LET r == new_transaction(chain, current_transactions, shared,
                                 "0", NodeIdentifier, 1)
           transaction == Last(r.current_transactions)
       IN  /\ chain' = r.chain
           /\ current_transactions' = r.current_transactions
           /\ submitted' = Append(submitted, transaction)
           /\ arg' = [Appended(arg, transaction) EXCEPT
                          ![t].pc = "rewarded",
                          ![t].previous_hash = PyStr(hash(arg[t].last_block))]
    /\ UNCHANGED shared
    /\ UNCHANGED elsewhere

\* new_block called by mine (line 243), lines 38-44
NewBlockBuild(t, now) ==
    /\ arg[t].pc = "rewarded"
    /\ now >= Last(chain).timestamp
    /\ LET r == new_block(chain, current_transactions, arg[t].proof,
                           arg[t].previous_hash, now)
       IN  arg' = [arg EXCEPT ![t].pc = "built",
                              ![t].block = r.block,
                              ![t].alias = TRUE,
                              ![t].snapshot = current_transactions]
    /\ UNCHANGED <<chain, current_transactions, shared, submitted>>
    /\ UNCHANGED elsewhere

\* new_block, line 46: no block being built holds the new list
NewBlockReset(t) ==
    /\ arg[t].pc = "built"
    /\ current_transactions' = <<>>
    /\ arg' = [u \in Threads |->
                  [arg[u] EXCEPT !.alias = FALSE,
                                 !.pc = IF u = t THEN "reset" ELSE @]]
    /\ UNCHANGED <<chain, shared, submitted>>
    /\ UNCHANGED elsewhere

\* new_block, lines 48-49
NewBlockAppend(t) ==
    /\ arg[t].pc = "reset"
    /\ chain' = Append(chain, arg[t].block)
    /\ shared' = arg[t].alias
    /\ arg' = [arg EXCEPT ![t].pc = "done"]
    /\ UNCHANGED <<current_transactions, submitted>>
    /\ UNCHANGED elsewhere

\* /transactions/new with a complete body, lines 69-75
TransactionsNewAppend ==
    /\ arg["tx"].pc = "idle"
    /\ LET r == new_transaction(chain, current_transactions, shared, "A", "B", 5)
           transaction == Last(r.current_transactions)
       IN  /\ chain' = r.chain
           /\ current_transactions' = r.current_transactions
           /\ submitted' = Append(submitted, transaction)
           /\ arg' = [Appended(arg, transaction) EXCEPT !["tx"].pc = "done"]
    /\ UNCHANGED shared
    /\ UNCHANGED elsewhere

\* resolve_conflicts, lines 202-216
ResolveScan ==
    /\ arg["rs"].pc = "idle"
    /\ \E order \in Orders(nodes) :
           LET r == resolve_loop(order, peers, Len(chain), NoChain)
           IN  arg' = [arg EXCEPT !["rs"].pc = IF r.exc # "" THEN "done" ELSE "scanned",
                                  !["rs"].new_chain = r.new_chain]
    /\ UNCHANGED <<chain, current_transactions, shared, submitted>>
    /\ UNCHANGED elsewhere

\* resolve_conflicts, lines 218-222
ResolveInstall ==
    /\ arg["rs"].pc = "scanned"
    /\ IF arg["rs"].new_chain.some /\ arg["rs"].new_chain.chain # <<>>
       THEN chain' = arg["rs"].new_chain.chain /\ shared' = FALSE
       ELSE UNCHANGED <<chain, shared>>
    /\ arg' = [arg EXCEPT !["rs"].pc = "done"]
    /\ UNCHANGED <<current_transactions, submitted>>
    /\ UNCHANGED elsewhere



NextThreads ==
    \/ \E t \in Miners : MineRead(t)
    \/ \E t \in Miners : MineReward(t)
    \/ \E t \in Miners, now \in Timestamps : NewBlockBuild(t, now)
    \/ \E t \in Miners : NewBlockReset(t)
    \/ \E t \in Miners : NewBlockAppend(t)
    \/ TransactionsNewAppend
    \/ ResolveScan
    \/ ResolveInstall

SpecThreads == InitThreads /\ [][NextThreads]_vars

\* no handler is under way
Quiet == \A t \in Threads : arg[t].pc \in {"idle", "done"}

RECURSIVE Count(_, _)
Count(v, list) ==
    IF list = <<>> THEN 0
    ELSE (IF Head(list) = v THEN 1 ELSE 0) + Count(v, Tail(list))

RECURSIVE Held(_)
Held(ch) == IF ch = <<>> THEN <<>> ELSE Head(ch).transactions \o Held(Tail(ch))

\* C13: with concurrent handlers every operation that writes appears atomic:
\* a block never holds a transaction queued after the pool was taken into it,
\* and once the handlers have returned every transaction submitted is held
\* exactly once, by one block of the chain or by the pool (stated while the
\* chain has not been replaced by a peer's).
C13_HandlersAtomic ==
    /\ \A t \in Miners :
           arg[t].pc \in {"built", "reset", "done"} =>
               arg[t].block.transactions = arg[t].snapshot
    /\ (Quiet /\ arg["rs"].pc = "idle") =>
           \A i \in 1..Len(submitted) :
               Count(submitted[i], Held(chain) \o current_transactions)
                   = Count(submitted[i], submitted)

\* C14: a block that mine appends carries the digest of the block that
\* precedes it in the chain at that moment and a proof valid against that
\* block's proof, also when the chain changed after mine read the last block.
C14_StaleMineRevalidated ==
    [][\A t \in Miners :
          (arg[t].pc = "reset" /\ arg'[t].pc = "done") =>
              /\ Last(chain').previous_hash = PyStr(hash(Last(chain)))
              /\ valid_proof(Last(chain).proof, Last(chain').proof)]_vars

====
